---- MODULE Spec2Model ----
(***************************************************************************)
(* A model of documentmanager.py: DocumentManager.get_file_info,           *)
(* DocumentManager._determine_file_type, DocumentManager.process_document, *)
(* DocumentManager.list_documents and the menu loop of main.               *)
(*                                                                         *)
(* Strings the code inspects character by character (file names and        *)
(* extensions) are sequences of one-character strings.  Python's None,     *)
(* True and False are the strings "None", "True" and "False".              *)
(***************************************************************************)
EXTENDS Integers, Sequences, FiniteSets, TLC

(***************************************************************************)
(* Bounds of the model.                                                    *)
(***************************************************************************)
\* the largest page count len(doc) of a document the operator uploads
MaxPages == 2
\* the number of times main calls process_document
MaxUploads == 1
\* the number of times main calls display_menu
MaxMenu == 2

(***************************************************************************)
(* Strings.                                                                *)
(***************************************************************************)
LowerCaseLetters == <<"a", "c", "d", "f", "n", "o", "p", "r", "t", "x">>

UpperCaseLetters == <<"A", "C", "D", "F", "N", "O", "P", "R", "T", "X">>

\* str.lower() on one character
LowerChar(c) ==
    IF \E i \in 1..Len(UpperCaseLetters) : UpperCaseLetters[i] = c
    THEN LowerCaseLetters[CHOOSE i \in 1..Len(UpperCaseLetters) : UpperCaseLetters[i] = c]
    ELSE c

\* str.upper() on one character (used only to build the inputs)
UpperChar(c) ==
    IF \E i \in 1..Len(LowerCaseLetters) : LowerCaseLetters[i] = c
    THEN UpperCaseLetters[CHOOSE i \in 1..Len(LowerCaseLetters) : LowerCaseLetters[i] = c]
    ELSE c

\* str.lower()
Lower(s) == [i \in 1..Len(s) |-> LowerChar(s[i])]

\* str.rfind(c): the last 0-based index of c in s, -1 when absent
RFind(s, c) ==
    IF \E i \in 1..Len(s) : s[i] = c
    THEN (CHOOSE i \in 1..Len(s) : s[i] = c /\ \A j \in (i + 1)..Len(s) : s[j] # c) - 1
    ELSE -1

\* the slice s[k:] for a 0-based k
SliceFrom(s, k) == IF k >= Len(s) THEN <<>> ELSE SubSeq(s, k + 1, Len(s))

\* the slice s[:k] for a 0-based k
SliceTo(s, k) == IF k <= 0 THEN <<>> ELSE SubSeq(s, 1, k)

(***************************************************************************)
(* pathlib.Path: name, suffix and stem of a path.                          *)
(***************************************************************************)
\* Path(filepath).name: the final component of the path
PathName(filepath) == SliceFrom(filepath, RFind(filepath, "/") + 1)

\* Path(filepath).suffix: the name from its last dot on, when that dot is
\* neither the first nor the last character of the name
PathSuffix(filepath) ==
    LET name == PathName(filepath)
        i == RFind(name, ".")
    IN  IF 0 < i /\ i < Len(name) - 1 THEN SliceFrom(name, i) ELSE <<>>

\* Path(filepath).stem: the name without its suffix
PathStem(filepath) ==
    LET name == PathName(filepath)
        i == RFind(name, ".")
    IN  IF 0 < i /\ i < Len(name) - 1 THEN SliceTo(name, i) ELSE name

(***************************************************************************)
(* DocumentManager._determine_file_type and DocumentManager.get_file_info. *)
(***************************************************************************)
type_mapping_keys ==
    { <<".", "p", "d", "f">>,
      <<".", "d", "o", "c">>,
      <<".", "d", "o", "c", "x">>,
      <<".", "p", "p", "t">>,
      <<".", "p", "p", "t", "x">> }

type_mapping(key) ==
    CASE key = <<".", "p", "d", "f">> -> "PDF"
      [] key = <<".", "d", "o", "c">> -> "Word"
      [] key = <<".", "d", "o", "c", "x">> -> "Word"
      [] key = <<".", "p", "p", "t">> -> "PowerPoint"
      [] key = <<".", "p", "p", "t", "x">> -> "PowerPoint"

\* a lookup that forgets to lower-case the extension
DetermineFileTypeCaseSensitive(extension) ==
    IF extension \in type_mapping_keys THEN type_mapping(extension) ELSE "Other"

_determine_file_type(extension) ==
    LET lowered == Lower(extension)
    IN  IF lowered \in type_mapping_keys THEN type_mapping(lowered) ELSE "Other"

\* a get_file_info that lower-cases the stored extension
GetFileInfoLowered(filepath) ==
    [ filename |-> PathName(filepath),
      file_extension |-> Lower(SliceFrom(PathSuffix(filepath), 1)),
      file_type |-> _determine_file_type(PathSuffix(filepath)) ]

\* the fields of get_file_info's result that depend on the path alone
get_file_info(filepath) ==
    [ filename |-> PathName(filepath),
      file_extension |-> SliceFrom(PathSuffix(filepath), 1),
      file_type |-> _determine_file_type(PathSuffix(filepath)) ]

(***************************************************************************)
(* The inputs.                                                             *)
(***************************************************************************)
\* the paths the operator types at "Please enter the path to your document"
Paths ==
    { <<"R", ".", "P", "D", "F">>,
      <<"a", ".", "d", "o", "c">>,
      <<"d", ".", "x", "/", "n">> }

\* the answers the operator gives to the version prompt
VersionAnswers == { <<>>, <<"2">> }

\* every way of upper-casing some characters of w
CaseVariants(w) ==
    { [i \in 1..Len(w) |-> IF i \in m THEN UpperChar(w[i]) ELSE w[i]] :
        m \in SUBSET (1..Len(w)) }

\* the extensions _determine_file_type is applied to, in every mix of case
BaseExtensions ==
    { <<>>,
      <<".">>,
      <<".", "p", "d", "f">>,
      <<".", "d", "o", "c">>,
      <<".", "d", "o", "c", "x">>,
      <<".", "p", "p", "t">>,
      <<".", "p", "p", "t", "x">>,
      <<".", "t", "x", "t">>,
      <<".", "p", "d">>,
      <<".", "p", "d", "f", "x">>,
      <<".", "d", "o", "t">>,
      <<".", "p", "p", "x">>,
      <<"p", "d", "f">>,
      <<"d", "o", "c", "x">> }

Extensions == UNION { CaseVariants(w) : w \in BaseExtensions }

(***************************************************************************)
(* The state.                                                              *)
(***************************************************************************)
VARIABLES
    mpc,             \* main: "menu", "upload" (inside process_document), "exited", "crashed"
    choice,          \* main: the last value display_menu returned
    menuShown,       \* the number of calls of display_menu
    pdCalls,         \* the number of calls of process_document
    listCalls,       \* the number of calls of list_documents
    listResult,      \* what the last list_documents printed
    outputDirExists, \* the directory 'output' exists
    outputFiles,     \* the files in 'output', each <stem>-p<page>.jpg
    documents,       \* the backend's table documents, in insertion order
    document_pages,  \* the backend's table document_pages, in insertion order
    nextId,          \* the id the backend gives the next documents row
    pc,              \* process_document: the statement it is at
    filepath,        \* process_document: its argument
    pathExists,      \* what os.path.exists(filepath) answers in this call
    file_info,       \* process_document: local file_info
    docHandle,       \* process_document: local doc, "none", "open" or "closed"
    page_count,      \* process_document: local page_count
    document_data,   \* process_document: local document_data
    document_id,     \* process_document: local document_id
    page_num,        \* process_document: the loop variable page_num
    ret,             \* process_document: the value it returned
    prompts,         \* this call: the number of input() prompts issued
    closeCount,      \* this call: the number of doc.close() calls
    docsBefore,      \* this call: Len(documents) when it started
    pagesBefore,     \* this call: Len(document_pages) when it started
    pageAttempts,    \* this call: the page_number of every Page insert attempted
    filesWritten,    \* this call: the page number of every image file written
    failure,         \* this call: the step that raised, "none" when none did
    extension,       \* _determine_file_type: its argument
    file_type        \* _determine_file_type: its result, "unset" before the call

mainVars == <<mpc, choice, menuShown, pdCalls, listCalls, listResult>>

diskVars == <<outputDirExists, outputFiles>>

backendVars == <<documents, document_pages, nextId>>

frameVars == <<filepath, pathExists, file_info, docHandle, page_count, document_data, document_id, page_num>>

callVars == <<prompts, closeCount, docsBefore, pagesBefore, pageAttempts, filesWritten, failure>>

typeVars == <<extension, file_type>>

vars == <<mainVars, diskVars, backendVars, pc, ret, frameVars, callVars, typeVars>>

\* the value of a record-valued local that is not bound yet
Unbound == "unbound"

\* what an earlier run of the program left behind: nothing, or one document
\* of one page with its Page row and its image file
EarlierPath == <<"a", ".", "d", "o", "c">>

EarlierDocuments ==
    << [ id |-> 1,
         data |-> [ filename |-> get_file_info(EarlierPath).filename,
                    file_extension |-> get_file_info(EarlierPath).file_extension,
                    file_type |-> get_file_info(EarlierPath).file_type,
                    page_count |-> 1,
                    version |-> <<"1", ".", "0">> ] ] >>

EarlierFile == [stem |-> PathStem(EarlierPath), page |-> 1]

EarlierPages == << [document_id |-> 1, page_number |-> 1, page_image |-> EarlierFile] >>

Init ==
    /\ mpc = "menu"
    /\ choice = "none"
    /\ menuShown = 0
    /\ pdCalls = 0
    /\ listCalls = 0
    /\ listResult = "none"
    /\ \/ /\ outputDirExists = FALSE
          /\ outputFiles = {}
          /\ documents = <<>>
          /\ document_pages = <<>>
       \/ /\ outputDirExists = TRUE
          /\ outputFiles = {EarlierFile}
          /\ documents = EarlierDocuments
          /\ document_pages = EarlierPages
    /\ nextId = Len(documents) + 1
    /\ pc = "idle"
    /\ filepath = <<>>
    /\ pathExists = FALSE
    /\ file_info = Unbound
    /\ docHandle = "none"
    /\ page_count = 0
    /\ document_data = Unbound
    /\ document_id = 0
    /\ page_num = 0
    /\ ret = "unset"
    /\ prompts = 0
    /\ closeCount = 0
    /\ docsBefore = Len(documents)
    /\ pagesBefore = Len(document_pages)
    /\ pageAttempts = <<>>
    /\ filesWritten = <<>>
    /\ failure = "none"
    /\ extension = <<>>
    /\ file_type = "unset"

(***************************************************************************)
(* process_document, statement by statement.                               *)
(***************************************************************************)
\* "return value": control goes back to the menu loop of main
Return(value) ==
    /\ ret' = value
    /\ pc' = "returned"
    /\ mpc' = "menu"

\* an exception leaves process_document and, uncaught in main, ends the program
Propagate ==
    /\ pc' = "raised"
    /\ mpc' = "crashed"
    /\ UNCHANGED ret

\* an exception raised inside the try block: control goes to the except clause
Raise(step) ==
    /\ failure' = step
    /\ pc' = "except"
    /\ UNCHANGED <<ret, mpc>>

\* doc.close()
Close ==
    /\ docHandle' = "closed"
    /\ closeCount' = closeCount + 1

\* the image file of the page the loop is at: output/<stem>-p<page_num + 1>.jpg
OutputPath == [stem |-> PathStem(filepath), page |-> page_num + 1]

\* an existence check made only after the output directory is created
PD_NotFoundAfterMkdir ==
    /\ pc = "start"
    /\ ~pathExists
    /\ outputDirExists' = TRUE
    /\ Return("None")
    /\ UNCHANGED <<choice, menuShown, pdCalls, listCalls, listResult>>
    /\ UNCHANGED <<outputFiles, backendVars, frameVars, callVars, typeVars>>

\* lines 47-49: the path does not exist
PD_NotFound ==
    /\ pc = "start"
    /\ ~pathExists
    /\ Return("None")
    /\ UNCHANGED <<choice, menuShown, pdCalls, listCalls, listResult>>
    /\ UNCHANGED <<diskVars, backendVars, frameVars, callVars, typeVars>>

\* lines 47-56: the path exists; get_file_info, then output_dir.mkdir(exist_ok=True)
PD_Prepare ==
    /\ pc = "start"
    /\ pathExists
    /\ file_info' = get_file_info(filepath)
    /\ outputDirExists' = TRUE
    /\ pc' = "open"
    /\ UNCHANGED <<mainVars, outputFiles, backendVars, ret, callVars, typeVars>>
    /\ UNCHANGED <<filepath, pathExists, docHandle, page_count, document_data, document_id, page_num>>

\* lines 59-60: fitz.open succeeds on a document of n pages
PD_Open(n) ==
    /\ pc = "open"
    /\ docHandle' = "open"
    /\ page_count' = n
    /\ pc' = "prompt"
    /\ UNCHANGED <<mainVars, diskVars, backendVars, ret, callVars, typeVars>>
    /\ UNCHANGED <<filepath, pathExists, file_info, document_data, document_id, page_num>>

\* line 59: fitz.open raises; no try block encloses it
PD_OpenFails ==
    /\ pc = "open"
    /\ failure' = "open"
    /\ Propagate
    /\ UNCHANGED <<choice, menuShown, pdCalls, listCalls, listResult>>
    /\ UNCHANGED <<diskVars, backendVars, frameVars, typeVars>>
    /\ UNCHANGED <<prompts, closeCount, docsBefore, pagesBefore, pageAttempts, filesWritten>>

\* lines 63-79: the four prompts, then document_data
PD_Prompt(answer) ==
    /\ pc = "prompt"
    /\ prompts' = prompts + 4
    /\ document_data' =
         [ filename |-> file_info.filename,
           file_extension |-> file_info.file_extension,
           file_type |-> file_info.file_type,
           page_count |-> page_count,
           version |-> IF answer = <<>> THEN <<"1", ".", "0">> ELSE answer ]
    /\ pc' = "insert_document"
    /\ UNCHANGED <<mainVars, diskVars, backendVars, ret, typeVars>>
    /\ UNCHANGED <<filepath, pathExists, file_info, docHandle, page_count, document_id, page_num>>
    /\ UNCHANGED <<closeCount, docsBefore, pagesBefore, pageAttempts, filesWritten, failure>>

\* lines 82-86: the backend stores the row and answers with it, its id assigned
PD_InsertDocument ==
    /\ pc = "insert_document"
    /\ documents' = Append(documents, [id |-> nextId, data |-> document_data])
    /\ nextId' = nextId + 1
    /\ document_id' = nextId
    /\ page_num' = 0
    /\ pc' = "loop"
    /\ UNCHANGED <<mainVars, diskVars, document_pages, ret, callVars, typeVars>>
    /\ UNCHANGED <<filepath, pathExists, file_info, docHandle, page_count, document_data>>

\* line 82: the insert raises; the backend stores nothing
PD_InsertDocumentRaises ==
    /\ pc = "insert_document"
    /\ Raise("document_insert")
    /\ UNCHANGED <<choice, menuShown, pdCalls, listCalls, listResult>>
    /\ UNCHANGED <<diskVars, backendVars, frameVars, typeVars>>
    /\ UNCHANGED <<prompts, closeCount, docsBefore, pagesBefore, pageAttempts, filesWritten>>

\* a response without a row that is taken for a success, the id left unassigned
PD_InsertDocumentNoRowIgnored(stored) ==
    /\ pc = "insert_document"
    /\ IF stored
       THEN /\ documents' = Append(documents, [id |-> nextId, data |-> document_data])
            /\ nextId' = nextId + 1
       ELSE UNCHANGED <<documents, nextId>>
    /\ failure' = "document_no_row"
    /\ pc' = "loop"
    /\ UNCHANGED <<mainVars, diskVars, document_pages, ret, frameVars, typeVars>>
    /\ UNCHANGED <<prompts, closeCount, docsBefore, pagesBefore, pageAttempts, filesWritten>>

\* line 83: the response carries no row, so result.data[0] raises; the backend
\* may or may not have stored the row
PD_InsertDocumentNoRow(stored) ==
    /\ pc = "insert_document"
    /\ IF stored
       THEN /\ documents' = Append(documents, [id |-> nextId, data |-> document_data])
            /\ nextId' = nextId + 1
       ELSE UNCHANGED <<documents, nextId>>
    /\ Raise("document_no_row")
    /\ UNCHANGED <<choice, menuShown, pdCalls, listCalls, listResult>>
    /\ UNCHANGED <<diskVars, document_pages, frameVars, typeVars>>
    /\ UNCHANGED <<prompts, closeCount, docsBefore, pagesBefore, pageAttempts, filesWritten>>

\* a loop that runs one page too far: range(page_count + 1)
PD_RenderOffByOne ==
    /\ pc = "loop"
    /\ page_num <= page_count
    /\ pc' = "save"
    /\ UNCHANGED <<mainVars, diskVars, backendVars, ret, frameVars, callVars, typeVars>>

\* lines 87-91: the loop goes on to page page_num + 1 and renders it
PD_Render ==
    /\ pc = "loop"
    /\ page_num < page_count
    /\ pc' = "save"
    /\ UNCHANGED <<mainVars, diskVars, backendVars, ret, frameVars, callVars, typeVars>>

\* lines 88-91: doc[page_num] or page.get_pixmap() raises
PD_RenderFails ==
    /\ pc = "loop"
    /\ page_num < page_count
    /\ Raise("render")
    /\ UNCHANGED <<choice, menuShown, pdCalls, listCalls, listResult>>
    /\ UNCHANGED <<diskVars, backendVars, frameVars, typeVars>>
    /\ UNCHANGED <<prompts, closeCount, docsBefore, pagesBefore, pageAttempts, filesWritten>>

\* lines 92-93: pix.save writes the image file (over an older one of that name)
PD_Save ==
    /\ pc = "save"
    /\ outputFiles' = outputFiles \cup {OutputPath}
    /\ filesWritten' = Append(filesWritten, page_num + 1)
    /\ pc' = "read"
    /\ UNCHANGED <<mainVars, outputDirExists, backendVars, ret, frameVars, typeVars>>
    /\ UNCHANGED <<prompts, closeCount, docsBefore, pagesBefore, pageAttempts, failure>>

\* line 93: pix.save raises, having left a partial file behind or not
PD_SaveFails(partial) ==
    /\ pc = "save"
    /\ IF partial
       THEN /\ outputFiles' = outputFiles \cup {OutputPath}
            /\ filesWritten' = Append(filesWritten, page_num + 1)
       ELSE UNCHANGED <<outputFiles, filesWritten>>
    /\ Raise("save")
    /\ UNCHANGED <<choice, menuShown, pdCalls, listCalls, listResult>>
    /\ UNCHANGED <<outputDirExists, backendVars, frameVars, typeVars>>
    /\ UNCHANGED <<prompts, closeCount, docsBefore, pagesBefore, pageAttempts>>

\* lines 96-104: the file is read back and encoded, page_data is built
PD_ReadBack ==
    /\ pc = "read"
    /\ pc' = "insert_page"
    /\ UNCHANGED <<mainVars, diskVars, backendVars, ret, frameVars, callVars, typeVars>>

\* lines 96-97: open or read raises
PD_ReadBackFails ==
    /\ pc = "read"
    /\ Raise("read")
    /\ UNCHANGED <<choice, menuShown, pdCalls, listCalls, listResult>>
    /\ UNCHANGED <<diskVars, backendVars, frameVars, typeVars>>
    /\ UNCHANGED <<prompts, closeCount, docsBefore, pagesBefore, pageAttempts, filesWritten>>

\* a Page row numbered from 0: page_number is page_num, not page_num + 1
PD_InsertPageZeroBased ==
    /\ pc = "insert_page"
    /\ document_pages' =
         Append(document_pages,
                [ document_id |-> document_id,
                  page_number |-> page_num,
                  page_image |-> OutputPath ])
    /\ pageAttempts' = Append(pageAttempts, page_num)
    /\ page_num' = page_num + 1
    /\ pc' = "loop"
    /\ UNCHANGED <<mainVars, diskVars, documents, nextId, ret, typeVars>>
    /\ UNCHANGED <<filepath, pathExists, file_info, docHandle, page_count, document_data, document_id>>
    /\ UNCHANGED <<prompts, closeCount, docsBefore, pagesBefore, filesWritten, failure>>

\* lines 100-107: the backend stores the Page row; the loop steps to the next page
PD_InsertPage ==
    /\ pc = "insert_page"
    /\ document_pages' =
         Append(document_pages,
                [ document_id |-> document_id,
                  page_number |-> page_num + 1,
                  page_image |-> OutputPath ])
    /\ pageAttempts' = Append(pageAttempts, page_num + 1)
    /\ page_num' = page_num + 1
    /\ pc' = "loop"
    /\ UNCHANGED <<mainVars, diskVars, documents, nextId, ret, typeVars>>
    /\ UNCHANGED <<filepath, pathExists, file_info, docHandle, page_count, document_data, document_id>>
    /\ UNCHANGED <<prompts, closeCount, docsBefore, pagesBefore, filesWritten, failure>>

\* line 106: the insert raises; the backend stores nothing
PD_InsertPageFails ==
    /\ pc = "insert_page"
    /\ pageAttempts' = Append(pageAttempts, page_num + 1)
    /\ Raise("page_insert")
    /\ UNCHANGED <<choice, menuShown, pdCalls, listCalls, listResult>>
    /\ UNCHANGED <<diskVars, backendVars, frameVars, typeVars>>
    /\ UNCHANGED <<prompts, closeCount, docsBefore, pagesBefore, filesWritten>>

\* lines 109-117: the loop is over; doc.close(), the success message, return True
PD_Finish ==
    /\ pc = "loop"
    /\ page_num >= page_count
    /\ Close
    /\ Return("True")
    /\ UNCHANGED <<choice, menuShown, pdCalls, listCalls, listResult>>
    /\ UNCHANGED <<diskVars, backendVars, typeVars>>
    /\ UNCHANGED <<filepath, pathExists, file_info, page_count, document_data, document_id, page_num>>
    /\ UNCHANGED <<prompts, docsBefore, pagesBefore, pageAttempts, filesWritten, failure>>

\* an except clause without its "return False": control falls to "return True"
PD_ExceptReturnsTrue ==
    /\ pc = "except"
    /\ Close
    /\ Return("True")
    /\ UNCHANGED <<choice, menuShown, pdCalls, listCalls, listResult>>
    /\ UNCHANGED <<diskVars, backendVars, typeVars>>
    /\ UNCHANGED <<filepath, pathExists, file_info, page_count, document_data, document_id, page_num>>
    /\ UNCHANGED <<prompts, docsBefore, pagesBefore, pageAttempts, filesWritten, failure>>

\* an except clause without its doc.close()
PD_ExceptNoClose ==
    /\ pc = "except"
    /\ Return("False")
    /\ UNCHANGED <<choice, menuShown, pdCalls, listCalls, listResult>>
    /\ UNCHANGED <<diskVars, backendVars, typeVars, frameVars, callVars>>

\* an except clause that deletes the image files the call has written
PD_ExceptCleansUp ==
    /\ pc = "except"
    /\ Close
    /\ Return("False")
    /\ outputFiles' =
         outputFiles \ { [stem |-> PathStem(filepath), page |-> filesWritten[i]] :
                            i \in 1..Len(filesWritten) }
    /\ filesWritten' = <<>>
    /\ UNCHANGED <<choice, menuShown, pdCalls, listCalls, listResult>>
    /\ UNCHANGED <<outputDirExists, backendVars, typeVars>>
    /\ UNCHANGED <<filepath, pathExists, file_info, page_count, document_data, document_id, page_num>>
    /\ UNCHANGED <<prompts, docsBefore, pagesBefore, pageAttempts, failure>>

\* lines 112-115: the except clause; doc.close(), return False
PD_Except ==
    /\ pc = "except"
    /\ Close
    /\ Return("False")
    /\ UNCHANGED <<choice, menuShown, pdCalls, listCalls, listResult>>
    /\ UNCHANGED <<diskVars, backendVars, typeVars>>
    /\ UNCHANGED <<filepath, pathExists, file_info, page_count, document_data, document_id, page_num>>
    /\ UNCHANGED <<prompts, docsBefore, pagesBefore, pageAttempts, filesWritten, failure>>

(***************************************************************************)
(* main: one turn of the menu loop per action.                             *)
(***************************************************************************)
\* display_menu returns c
Menu(c) ==
    /\ mpc = "menu"
    /\ menuShown < MaxMenu
    /\ menuShown' = menuShown + 1
    /\ choice' = c

\* lines 155-157: choice "1"; the path is read and process_document is entered
Main_Upload(path, exists) ==
    /\ Menu("1")
    /\ pdCalls < MaxUploads
    /\ pdCalls' = pdCalls + 1
    /\ mpc' = "upload"
    /\ pc' = "start"
    /\ filepath' = path
    /\ pathExists' = exists
    /\ file_info' = Unbound
    /\ docHandle' = "none"
    /\ page_count' = 0
    /\ document_data' = Unbound
    /\ document_id' = 0
    /\ page_num' = 0
    /\ ret' = "unset"
    /\ prompts' = 0
    /\ closeCount' = 0
    /\ docsBefore' = Len(documents)
    /\ pagesBefore' = Len(document_pages)
    /\ pageAttempts' = <<>>
    /\ filesWritten' = <<>>
    /\ failure' = "none"
    /\ UNCHANGED <<listCalls, listResult, diskVars, backendVars, typeVars>>

\* lines 119-139: what list_documents prints when the select succeeds
ListOutput == IF documents = <<>> THEN "no documents" ELSE "listing"

\* lines 159-160: choice "2"; list_documents prints the rows
Main_List ==
    /\ Menu("2")
    /\ listCalls' = listCalls + 1
    /\ listResult' = ListOutput
    /\ UNCHANGED <<mpc, pdCalls, diskVars, backendVars, pc, ret, frameVars, callVars, typeVars>>

\* a list_documents without its try block: the error leaves main
Main_ListFailsUncaught ==
    /\ Menu("2")
    /\ listCalls' = listCalls + 1
    /\ mpc' = "crashed"
    /\ UNCHANGED <<listResult, pdCalls, diskVars, backendVars, pc, ret, frameVars, callVars, typeVars>>

\* lines 138-139: choice "2"; the select raises and list_documents reports it
Main_ListFails ==
    /\ Menu("2")
    /\ listCalls' = listCalls + 1
    /\ listResult' = "error"
    /\ UNCHANGED <<mpc, pdCalls, diskVars, backendVars, pc, ret, frameVars, callVars, typeVars>>

\* lines 162-164: choice "3"; break
Main_Exit ==
    /\ Menu("3")
    /\ mpc' = "exited"
    /\ UNCHANGED <<pdCalls, listCalls, listResult>>
    /\ UNCHANGED <<diskVars, backendVars, pc, ret, frameVars, callVars, typeVars>>

\* the answers to the menu that are none of "1", "2", "3"
InvalidChoices == {"", "4"}

\* lines 166-167: any other choice; the loop goes round
Main_Invalid(c) ==
    /\ Menu(c)
    /\ UNCHANGED <<mpc, pdCalls, listCalls, listResult>>
    /\ UNCHANGED <<diskVars, backendVars, pc, ret, frameVars, callVars, typeVars>>

Next ==
    \/ \E path \in Paths, exists \in BOOLEAN : Main_Upload(path, exists)
    \/ Main_List
    \/ Main_ListFails
    \/ Main_Exit
    \/ \E c \in InvalidChoices : Main_Invalid(c)
    \/ PD_NotFound
    \/ PD_Prepare
    \/ \E n \in 0..MaxPages : PD_Open(n)
    \/ PD_OpenFails
    \/ \E answer \in VersionAnswers : PD_Prompt(answer)
    \/ PD_InsertDocument
    \/ PD_InsertDocumentRaises
    \/ \E stored \in BOOLEAN : PD_InsertDocumentNoRow(stored)
    \/ PD_Render
    \/ PD_RenderFails
    \/ PD_Save
    \/ \E partial \in BOOLEAN : PD_SaveFails(partial)
    \/ PD_ReadBack
    \/ PD_ReadBackFails
    \/ PD_InsertPage
    \/ PD_InsertPageFails
    \/ PD_Finish
    \/ PD_Except

Spec == Init /\ [][Next]_vars

(***************************************************************************)
(* _determine_file_type applied to every extension of Extensions.          *)
(***************************************************************************)
InitType ==
    /\ mpc = "exited"
    /\ choice = "none"
    /\ menuShown = 0
    /\ pdCalls = 0
    /\ listCalls = 0
    /\ listResult = "none"
    /\ outputDirExists = FALSE
    /\ outputFiles = {}
    /\ documents = <<>>
    /\ document_pages = <<>>
    /\ nextId = 1
    /\ pc = "idle"
    /\ filepath = <<>>
    /\ pathExists = FALSE
    /\ file_info = Unbound
    /\ docHandle = "none"
    /\ page_count = 0
    /\ document_data = Unbound
    /\ document_id = 0
    /\ page_num = 0
    /\ ret = "unset"
    /\ prompts = 0
    /\ closeCount = 0
    /\ docsBefore = 0
    /\ pagesBefore = 0
    /\ pageAttempts = <<>>
    /\ filesWritten = <<>>
    /\ failure = "none"
    /\ extension \in Extensions
    /\ file_type = "unset"

\* lines 33-43: one call of _determine_file_type
DetermineFileType ==
    /\ file_type = "unset"
    /\ file_type' = _determine_file_type(extension)
    /\ UNCHANGED <<mainVars, diskVars, backendVars, pc, ret, frameVars, callVars, extension>>

NextType == DetermineFileType

SpecType == InitType /\ [][NextType]_vars

(***************************************************************************)
(* What one call of process_document has added to the backend.             *)
(***************************************************************************)
\* the documents rows stored since the call started
CallDocuments == SubSeq(documents, docsBefore + 1, Len(documents))

\* the document_pages rows stored since the call started
CallPages == SubSeq(document_pages, pagesBefore + 1, Len(document_pages))

\* bool(value) for a value process_document returns
Truthy(value) == value = "True"

\* the statements of process_document at which doc is open and the call goes on
InProgressOpen ==
    {"prompt", "insert_document", "loop", "save", "read", "insert_page", "except"}

(***************************************************************************)
(* Properties.                                                             *)
(***************************************************************************)
\* C1: when process_document has returned True for a document of P pages
\* (P >= 0), exactly P Page inserts were made by the call, with page_number
\* 1, 2, ..., P in insertion order, every one stored and every one carrying
\* the id the backend gave the call's one Document row.
C1_PagesOneToP ==
    ret = "True" =>
        /\ Len(CallDocuments) = 1
        /\ CallDocuments[1].id = document_id
        /\ pageAttempts = [k \in 1..page_count |-> k]
        /\ Len(CallPages) = page_count
        /\ \A k \in 1..page_count :
              /\ CallPages[k].page_number = k
              /\ CallPages[k].document_id = document_id

C1_Witness ==
    /\ ret = "True"
    /\ page_count >= 2
    /\ docsBefore >= 1
    /\ Len(CallPages) >= 2

\* C2: when the Document insert succeeded and the insert of page N raised,
\* process_document returns False having stored exactly one Document row and
\* the Page rows 1..N-1, and it has attempted no insert after the failed one.
C2_PartialFailure ==
    (pc = "returned" /\ failure = "page_insert") =>
        LET N == pageAttempts[Len(pageAttempts)]
        IN  /\ ret = "False"
            /\ 1 <= N /\ N <= page_count
            /\ pageAttempts = [k \in 1..N |-> k]
            /\ Len(CallDocuments) = 1
            /\ Len(CallPages) = N - 1
            /\ \A k \in 1..(N - 1) :
                  /\ CallPages[k].page_number = k
                  /\ CallPages[k].document_id = CallDocuments[1].id

C2_Witness ==
    /\ pc = "returned"
    /\ failure = "page_insert"
    /\ Len(pageAttempts) = 2
    /\ Len(CallPages) = 1

\* C3: the step process_document takes on a path that does not exist returns
\* a false value (None) to the menu with no exception, and changes neither the
\* backend nor the disk (no output directory, no file), opens no document and
\* issues no prompt.
C3_MissingFile ==
    [][(pc = "start" /\ ~pathExists) =>
          /\ pc' = "returned"
          /\ mpc' = "menu"
          /\ ret' # "unset"
          /\ ~Truthy(ret')
          /\ docHandle' = "none"
          /\ prompts' = 0
          /\ UNCHANGED <<diskVars, backendVars>>]_vars

C3_Witness ==
    /\ pc = "returned"
    /\ ~pathExists
    /\ ret = "None"
    /\ ~outputDirExists
    /\ choice = "1"

\* C4: when the Document insert failed (it raised, or its response carried no
\* row), process_document returns False having attempted no Page insert and
\* written no image file.
C4_NoPagesWithoutDocument ==
    (failure \in {"document_insert", "document_no_row"}) =>
        /\ pc \in {"except", "returned"}
        /\ pc = "returned" => ret = "False"
        /\ pageAttempts = <<>>
        /\ filesWritten = <<>>
        /\ Len(CallPages) = 0

C4_Witness ==
    /\ pc = "returned"
    /\ failure = "document_no_row"
    /\ page_count >= 1
    /\ Len(CallDocuments) = 1

\* C5: a document that process_document has opened stays open, never closed,
\* while the call runs, and has been closed exactly once when the call has
\* returned, on the success path and after every error of the try block.
C5_HandleReleasedOnce ==
    /\ (mpc = "upload" /\ pc \in InProgressOpen) =>
          (docHandle = "open" /\ closeCount = 0)
    /\ (pc = "returned" /\ docHandle # "none") =>
          (docHandle = "closed" /\ closeCount = 1)
    /\ (pc = "returned" /\ ret \in {"True", "False"}) => docHandle = "closed"

C5_Witness ==
    /\ pc = "returned"
    /\ failure = "read"
    /\ docHandle = "closed"
    /\ closeCount = 1

\* C6 as the specification states it: the menu loop ends only through choice
\* "3", whatever an upload or a listing does, an unopenable document included.
C6_OnlyExitEndsLoop ==
    /\ mpc \in {"menu", "upload", "exited"}
    /\ mpc = "exited" => choice = "3"

\* C6, amended: the loop ends normally only on choice "3"; process_document
\* hands control back to the menu when it returns (missing file, backend or
\* page error, success) and list_documents always does; an invalid choice shows
\* the menu again and calls neither process_document nor list_documents; the
\* one abnormal end is an upload whose document cannot be opened, the error of
\* fitz.open leaving process_document and main.
C6_LoopEnds ==
    /\ [](/\ mpc \in {"menu", "upload", "exited", "crashed"}
          /\ mpc = "exited" => choice = "3"
          /\ mpc = "crashed" =>
                (choice = "1" /\ pc = "raised" /\ failure = "open" /\ pathExists)
          /\ pc = "returned" => mpc \in {"menu", "exited"}
          /\ mpc = "upload" => (choice = "1" /\ pc \notin {"idle", "returned", "raised"}))
    /\ [][(menuShown' # menuShown /\ choice' \notin {"1", "2", "3"}) =>
             (mpc' = "menu" /\ pdCalls' = pdCalls /\ listCalls' = listCalls
                /\ UNCHANGED <<pc, backendVars, diskVars>>)]_vars
    /\ [][(menuShown' # menuShown /\ choice' = "2") =>
             (mpc' = "menu" /\ listCalls' = listCalls + 1 /\ pdCalls' = pdCalls)]_vars
    /\ [][(menuShown' # menuShown /\ choice' = "1") =>
             (mpc' = "upload" /\ pdCalls' = pdCalls + 1 /\ listCalls' = listCalls)]_vars

C6_Witness ==
    /\ mpc = "menu"
    /\ choice \in InvalidChoices
    /\ pc = "returned"
    /\ ret = "False"
    /\ pdCalls = 1

\* C7: a document of zero pages never enters the page loop; when its Document
\* insert succeeds, process_document stores exactly one Document row, with
\* page_count 0, writes no image file, attempts no Page insert, closes the
\* handle and returns True.
C7_EmptyDocument ==
    (docHandle # "none" /\ page_count = 0) =>
        /\ pc \notin {"save", "read", "insert_page"}
        /\ failure \in {"none", "document_insert", "document_no_row"}
        /\ pageAttempts = <<>>
        /\ filesWritten = <<>>
        /\ Len(CallPages) = 0
        /\ (pc = "returned" /\ failure = "none") =>
              /\ ret = "True"
              /\ Len(CallDocuments) = 1
              /\ CallDocuments[1].data.page_count = 0
              /\ docHandle = "closed"
              /\ closeCount = 1

C7_Witness ==
    /\ pc = "returned"
    /\ docHandle = "closed"
    /\ page_count = 0
    /\ ret = "True"
    /\ Len(CallDocuments) = 1

\* s ends with t
EndsWith(s, t) == Len(t) <= Len(s) /\ SubSeq(s, Len(s) - Len(t) + 1, Len(s)) = t

\* the name has an extension: a dot that is neither its first nor its last
\* character
HasExtension(name) == \E i \in 2..(Len(name) - 1) : name[i] = "."

\* C8 as the specification states it: the file_extension of every Document
\* row is lowercase and has no leading separator.
C8_ExtensionLowercase ==
    \A i \in 1..Len(documents) :
        LET e == documents[i].data.file_extension
        IN  /\ e = Lower(e)
            /\ \A j \in 1..Len(e) : e[j] # "."

\* C8, amended: the file_extension of every Document row is the extension of
\* the file name without its leading dot and in the case the file name has it
\* in (REPORT.PDF is stored with PDF), empty when the name has no extension.
C8_ExtensionAsWritten ==
    \A i \in 1..Len(documents) :
        LET e == documents[i].data.file_extension
            name == documents[i].data.filename
        IN  /\ \A j \in 1..Len(e) : e[j] # "."
            /\ IF HasExtension(name)
               THEN e # <<>> /\ EndsWith(name, <<".">> \o e)
               ELSE e = <<>>

C8_Witness ==
    /\ Len(CallDocuments) = 1
    /\ CallDocuments[1].data.file_extension = <<"P", "D", "F">>
    /\ CallDocuments[1].data.filename = <<"R", ".", "P", "D", "F">>

\* a and b are equal but for the case of their letters; b is lowercase
SameIgnoringCase(a, b) ==
    /\ Len(a) = Len(b)
    /\ \A i \in 1..Len(a) : a[i] = b[i] \/ a[i] = UpperChar(b[i])

\* C9: _determine_file_type, comparing without regard to case, answers PDF
\* for .pdf, Word for .doc and .docx, PowerPoint for .ppt and .pptx, and Other
\* for every other extension, the empty one included.
C9_Classification ==
    file_type # "unset" =>
        /\ file_type \in {"PDF", "Word", "PowerPoint", "Other"}
        /\ file_type = "PDF" <=> SameIgnoringCase(extension, <<".", "p", "d", "f">>)
        /\ file_type = "Word" <=>
              \/ SameIgnoringCase(extension, <<".", "d", "o", "c">>)
              \/ SameIgnoringCase(extension, <<".", "d", "o", "c", "x">>)
        /\ file_type = "PowerPoint" <=>
              \/ SameIgnoringCase(extension, <<".", "p", "p", "t">>)
              \/ SameIgnoringCase(extension, <<".", "p", "p", "t", "x">>)
        /\ extension = <<>> => file_type = "Other"

C9_Witness ==
    /\ file_type = "PowerPoint"
    /\ extension = <<".", "P", "p", "T", "x">>

\* C10: in every state of a call, every Page insert attempted so far was for a
\* page whose image file is in the output directory, and the image files the
\* call has written number as many as the Page rows it has stored, or one
\* more; after a failed insert of page N they are N against N-1 rows; and no
\* step removes a file from the output directory.
C10_ImageBeforeRow ==
    /\ [](/\ Len(filesWritten) \in {Len(CallPages), Len(CallPages) + 1}
          /\ \A i \in 1..Len(pageAttempts) :
                /\ i <= Len(filesWritten)
                /\ filesWritten[i] = pageAttempts[i]
                /\ [stem |-> PathStem(filepath), page |-> pageAttempts[i]] \in outputFiles
          /\ pc = "insert_page" => Len(filesWritten) = Len(CallPages) + 1
          /\ failure = "page_insert" =>
                /\ Len(filesWritten) = pageAttempts[Len(pageAttempts)]
                /\ Len(CallPages) = pageAttempts[Len(pageAttempts)] - 1)
    /\ [][outputFiles \subseteq outputFiles']_vars

C10_Witness ==
    /\ pc = "returned"
    /\ failure = "page_insert"
    /\ Len(filesWritten) = 2
    /\ Len(CallPages) = 1
    /\ Cardinality(outputFiles) >= 2

====
